---- MODULE Spec2Model ----
(***************************************************************************)
(* Model of Instructor/utils/timing.py: the decorator time_execution and   *)
(* the context manager timer, run by several interleaved invocations       *)
(* against one monotonic clock and one standard output stream.             *)
(*                                                                         *)
(* Numbers.  time.perf_counter() returns seconds as a float.  A time value *)
(* x is held here as the integer x * 10^6, so a clock read is a whole      *)
(* number of microseconds and (end - start) * 1000 is computed exactly.    *)
(* Optional values (None or a value) are sequences of length at most one.  *)
(***************************************************************************)
EXTENDS Integers, Sequences, FiniteSets, TLC

\* ---------------------------------------------------------------- bounds
MaxInv == 2      \* invocation frames that may be live at the same time
MaxCalls == 2    \* invocations started in one behaviour
MaxClock == 8   \* last clock value (microseconds) the clock may reach

\* ------------------------------------------------------- program constants
MsPerSecond == 1000   \* "* 1000  # Convert to milliseconds"
Decimals == 2         \* ":.2f"

Frames == 1..MaxInv
None == <<>>
Some(v) == <<v>>

\* The clock advances in steps of its resolution, 4 microseconds.
Ticks == {4}

\* ------------------------------------------------------------ environment
\* The callables handed to time_execution: scale(x, factor=1) returns x * factor;
\* checked(x) returns x, and raises ValueError when x = 2.  A keyword argument
\* the callable does not take makes the call raise TypeError.
Callables == {"scale", "checked"}
\* The calls made: <<callable, args, kwargs>>.
Inputs == {<<"scale", <<1>>, {}>>, <<"scale", <<2>>, {<<"factor", 3>>}>>,
           <<"checked", <<1>>, {}>>, <<"checked", <<2>>, {}>>,
           <<"checked", <<1>>, {<<"factor", 3>>}>>}
Exceptions == {"ValueError", "KeyError"}
Descriptions == {None, Some(""), Some("load")}

FuncName(f) == f
FuncDoc(f) == IF f = "scale" THEN Some("Scale x by factor.") ELSE None

KwGet(k, name, default) ==
    IF \E p \in k : p[1] = name
    THEN (CHOOSE p \in k : p[1] = name)[2]
    ELSE default

\* What calling f(*a, **k) does: [raises |-> Optional exception, value |-> Optional value].
Returns(v) == [raises |-> None, value |-> Some(v)]
Raises(e) == [raises |-> Some(e), value |-> None]
Behave(f, a, k) ==
    CASE f = "scale" -> Returns(a[1] * KwGet(k, "factor", 1))
      [] f = "checked" ->
           IF k # {} THEN Raises("TypeError")
           ELSE IF a[1] = 2 THEN Raises("ValueError") ELSE Returns(a[1])

VARIABLES
    now,             \* the value time.perf_counter() would return
    stdout,          \* the lines printed so far
    wrappers,        \* callable -> Optional wrapper object made by time_execution
    kind,            \* frame -> "none", "wrapper" or "timer"
    pc,              \* frame -> position of the invocation
    func,            \* wrapper frame: the closure's func
    args,            \* wrapper frame: *args
    kwargs,          \* wrapper frame: **kwargs
    description,     \* timer frame: description
    start_time,      \* local start_time (Optional)
    end_time,        \* local end_time (Optional)
    execution_time,  \* local execution_time (Optional)
    result,          \* wrapper local result (Optional)
    returned,        \* what the invocation returned to its caller (Optional)
    raised,          \* the exception the invocation's caller receives (Optional)
    calls,           \* history: the argument lists with which the frame called func
    reads,           \* history: the clock values the frame read
    events,          \* history: what the frame did, in order
    thrown,          \* history: the exception raised inside func or the block
    started,         \* history: invocations started
    normalExits      \* history: timer scopes whose block exited normally

frameVars == <<kind, pc, func, args, kwargs, description, start_time, end_time,
               execution_time, result, returned, raised>>
histVars == <<calls, reads, events, thrown, started, normalExits>>
vars == <<now, stdout, wrappers, frameVars, histVars>>

\* A new invocation takes the lowest free frame.
Free(i) == pc[i] = "idle" /\ \A j \in Frames : j < i => pc[j] # "idle"

\* ------------------------------------------------------------ time_execution
\* time.perf_counter()
PerfCounter == now

\* The wrapper function object as "def wrapper" creates it, before functools.wraps.
DefWrapper(f) == [name |-> "wrapper", doc |-> None, wrapped |-> None, func |-> f]

\* Mutant: the wrapper is returned without functools.wraps applied to it.
WrapsNothing(f, w) == [w EXCEPT !.wrapped = Some(f)]

\* functools.wraps(func): copies __name__ and __doc__, sets __wrapped__.
Wraps(f, w) == [w EXCEPT !.name = FuncName(f), !.doc = FuncDoc(f), !.wrapped = Some(f)]

\* time_execution(func): builds the wrapper and returns it.
time_execution(f) == Wraps(f, DefWrapper(f))

Decorate(f) ==
    /\ wrappers[f] = None
    /\ wrappers' = [wrappers EXCEPT ![f] = Some(time_execution(f))]
    /\ UNCHANGED <<now, stdout, frameVars, histVars>>

\* Mutant: the call forwards *args only.
CallFuncDropsKwargs(a, k) == [args |-> a, kwargs |-> {}]

\* The argument list of the call func(*args, **kwargs).
CallFunc(a, k) == [args |-> a, kwargs |-> k]

\* Mutant: the conversion to milliseconds is left out.
WrapperElapsedSeconds(s, e) == e - s

\* execution_time = (end_time - start_time) * 1000, in the wrapper.
WrapperElapsed(s, e) == (e - s) * MsPerSecond

\* return result, execution_time
WrapperPair(r, t) == <<r, t>>

\* Mutant: start_time is a module-level variable, shared by all invocations.
WrapperEnterSharedStart(i, f, a, k) ==
    /\ Free(i)
    /\ started < MaxCalls
    /\ wrappers[f] # None
    /\ kind' = [kind EXCEPT ![i] = "wrapper"]
    /\ pc' = [pc EXCEPT ![i] = "in_func"]
    /\ func' = [func EXCEPT ![i] = Some(wrappers[f][1].func)]
    /\ args' = [args EXCEPT ![i] = Some(a)]
    /\ kwargs' = [kwargs EXCEPT ![i] = Some(k)]
    /\ start_time' = [j \in Frames |-> Some(PerfCounter)]
    /\ reads' = [reads EXCEPT ![i] = Append(@, PerfCounter)]
    /\ calls' = [calls EXCEPT ![i] = Append(@, CallFunc(a, k))]
    /\ events' = [events EXCEPT ![i] = @ \o <<"perf_counter", "call">>]
    /\ started' = started + 1
    /\ UNCHANGED <<now, stdout, wrappers, description, end_time, execution_time,
                   result, returned, raised, thrown, normalExits>>

\* wrapper(*args, **kwargs) is called: start_time is read and func is called.
WrapperEnter(i, f, a, k) ==
    /\ Free(i)
    /\ started < MaxCalls
    /\ wrappers[f] # None
    /\ kind' = [kind EXCEPT ![i] = "wrapper"]
    /\ pc' = [pc EXCEPT ![i] = "in_func"]
    /\ func' = [func EXCEPT ![i] = Some(wrappers[f][1].func)]
    /\ args' = [args EXCEPT ![i] = Some(a)]
    /\ kwargs' = [kwargs EXCEPT ![i] = Some(k)]
    /\ start_time' = [start_time EXCEPT ![i] = Some(PerfCounter)]
    /\ reads' = [reads EXCEPT ![i] = Append(@, PerfCounter)]
    /\ calls' = [calls EXCEPT ![i] = Append(@, CallFunc(a, k))]
    /\ events' = [events EXCEPT ![i] = @ \o <<"perf_counter", "call">>]
    /\ started' = started + 1
    /\ UNCHANGED <<now, stdout, wrappers, description, end_time, execution_time,
                   result, returned, raised, thrown, normalExits>>

\* The outcome of the call the frame made at "result = func(*args, **kwargs)".
Outcome(i) == Behave(func[i][1], calls[i][Len(calls[i])].args, calls[i][Len(calls[i])].kwargs)

\* func returns: result is assigned.
FuncReturns(i) ==
    /\ pc[i] = "in_func"
    /\ Outcome(i).raises = None
    /\ result' = [result EXCEPT ![i] = Outcome(i).value]
    /\ pc' = [pc EXCEPT ![i] = "after_func"]
    /\ events' = [events EXCEPT ![i] = Append(@, "func_returned")]
    /\ UNCHANGED <<now, stdout, wrappers, kind, func, args, kwargs, description, start_time,
                   end_time, execution_time, returned, raised, calls, reads, thrown,
                   started, normalExits>>

\* Mutant: the wrapper catches the exception and raises RuntimeError in its place.
FuncRaisesTranslated(i) ==
    /\ pc[i] = "in_func"
    /\ Outcome(i).raises # None
    /\ thrown' = [thrown EXCEPT ![i] = Outcome(i).raises]
    /\ raised' = [raised EXCEPT ![i] = Some("RuntimeError")]
    /\ pc' = [pc EXCEPT ![i] = "done"]
    /\ events' = [events EXCEPT ![i] = Append(@, "raise")]
    /\ UNCHANGED <<now, stdout, wrappers, kind, func, args, kwargs, description, start_time,
                   end_time, execution_time, result, returned, calls, reads,
                   started, normalExits>>

\* func raises: the wrapper has no handler, the exception leaves the wrapper.
FuncRaises(i) ==
    /\ pc[i] = "in_func"
    /\ Outcome(i).raises # None
    /\ thrown' = [thrown EXCEPT ![i] = Outcome(i).raises]
    /\ raised' = [raised EXCEPT ![i] = Outcome(i).raises]
    /\ pc' = [pc EXCEPT ![i] = "done"]
    /\ events' = [events EXCEPT ![i] = Append(@, "raise")]
    /\ UNCHANGED <<now, stdout, wrappers, kind, func, args, kwargs, description, start_time,
                   end_time, execution_time, result, returned, calls, reads, started, normalExits>>

\* end_time is read, execution_time computed, the pair returned.
WrapperFinish(i) ==
    /\ pc[i] = "after_func"
    /\ end_time' = [end_time EXCEPT ![i] = Some(PerfCounter)]
    /\ execution_time' = [execution_time EXCEPT
                            ![i] = Some(WrapperElapsed(start_time[i][1], PerfCounter))]
    /\ returned' = [returned EXCEPT
                      ![i] = Some(WrapperPair(result[i][1], execution_time'[i][1]))]
    /\ reads' = [reads EXCEPT ![i] = Append(@, PerfCounter)]
    /\ events' = [events EXCEPT ![i] = @ \o <<"perf_counter", "return">>]
    /\ pc' = [pc EXCEPT ![i] = "done"]
    /\ UNCHANGED <<now, stdout, wrappers, kind, func, args, kwargs, description, start_time,
                   result, raised, calls, thrown, started, normalExits>>

\* ---------------------------------------------------------------------- timer
\* Mutant: the test is "if description is not None:".
TruthyIsNotNone(d) == d # None

\* bool(description), as "if description:" evaluates it.
Truthy(d) == d # None /\ d[1] # ""

\* n printed with exactly width digits, zero-padded.
RECURSIVE Digits(_, _)
Digits(n, width) ==
    IF width = 0 THEN "" ELSE Digits(n \div 10, width - 1) \o ToString(n % 10)

\* x / unit rounded to the nearest integer, ties to even (x >= 0).
RoundHalfEven(x, unit) ==
    LET q == x \div unit
        r == x % unit
    IN  IF 2 * r < unit THEN q
        ELSE IF 2 * r > unit THEN q + 1
        ELSE IF q % 2 = 0 THEN q ELSE q + 1

\* format(x, ".2f") of a time value held as x * 10^6.
Format2f(x) ==
    LET h == RoundHalfEven(IF x < 0 THEN -x ELSE x, 10^(6 - Decimals))
    IN  (IF x < 0 THEN "-" ELSE "")
          \o ToString(h \div 10^Decimals) \o "." \o Digits(h % 10^Decimals, Decimals)

\* Mutant: the operands of the subtraction are swapped.
TimerElapsedSwapped(s, e) == (s - e) * MsPerSecond

\* execution_time = (end_time - start_time) * 1000, in timer.
TimerElapsed(s, e) == (e - s) * MsPerSecond

\* Mutant: the description is formatted into the line whatever it is.
MessageNoDefault(d, t) ==
    (IF d = None THEN "None" ELSE d[1]) \o " took " \o Format2f(t) \o "ms"

\* The line timer prints.
Message(d, t) ==
    IF Truthy(d)
    THEN d[1] \o " took " \o Format2f(t) \o "ms"
    ELSE "Execution took " \o Format2f(t) \o "ms"

\* "with timer(d):" is entered: the generator runs to its yield.
TimerEnter(i, d) ==
    /\ Free(i)
    /\ started < MaxCalls
    /\ kind' = [kind EXCEPT ![i] = "timer"]
    /\ pc' = [pc EXCEPT ![i] = "in_block"]
    /\ description' = [description EXCEPT ![i] = d]
    /\ start_time' = [start_time EXCEPT ![i] = Some(PerfCounter)]
    /\ reads' = [reads EXCEPT ![i] = Append(@, PerfCounter)]
    /\ events' = [events EXCEPT ![i] = @ \o <<"perf_counter", "yield">>]
    /\ started' = started + 1
    /\ UNCHANGED <<now, stdout, wrappers, func, args, kwargs, end_time, execution_time,
                   result, returned, raised, calls, thrown, normalExits>>

\* The block ends normally: the generator resumes after its yield and runs to its end.
TimerExit(i) ==
    /\ pc[i] = "in_block"
    /\ end_time' = [end_time EXCEPT ![i] = Some(PerfCounter)]
    /\ execution_time' = [execution_time EXCEPT
                            ![i] = Some(TimerElapsed(start_time[i][1], PerfCounter))]
    /\ stdout' = Append(stdout, Message(description[i], execution_time'[i][1]))
    /\ reads' = [reads EXCEPT ![i] = Append(@, PerfCounter)]
    /\ events' = [events EXCEPT ![i] = @ \o <<"perf_counter", "print">>]
    /\ normalExits' = normalExits + 1
    /\ pc' = [pc EXCEPT ![i] = "done"]
    /\ UNCHANGED <<now, wrappers, kind, func, args, kwargs, description, start_time,
                   result, returned, raised, calls, thrown, started>>

\* Mutant: the yield is wrapped in try/except, which swallows the exception.
BlockRaisesSuppressed(i, e) ==
    /\ pc[i] = "in_block"
    /\ thrown' = [thrown EXCEPT ![i] = Some(e)]
    /\ events' = [events EXCEPT ![i] = Append(@, "except")]
    /\ pc' = [pc EXCEPT ![i] = "done"]
    /\ UNCHANGED <<now, stdout, wrappers, kind, func, args, kwargs, description,
                   start_time, end_time, execution_time, result, returned, raised, calls,
                   reads, started, normalExits>>

\* Mutant: the yield is wrapped in try/finally, so the report runs on failure too.
BlockRaisesFinally(i, e) ==
    /\ pc[i] = "in_block"
    /\ thrown' = [thrown EXCEPT ![i] = Some(e)]
    /\ raised' = [raised EXCEPT ![i] = Some(e)]
    /\ end_time' = [end_time EXCEPT ![i] = Some(PerfCounter)]
    /\ execution_time' = [execution_time EXCEPT
                            ![i] = Some(TimerElapsed(start_time[i][1], PerfCounter))]
    /\ stdout' = Append(stdout, Message(description[i], execution_time'[i][1]))
    /\ reads' = [reads EXCEPT ![i] = Append(@, PerfCounter)]
    /\ events' = [events EXCEPT ![i] = @ \o <<"perf_counter", "print", "raise">>]
    /\ pc' = [pc EXCEPT ![i] = "done"]
    /\ UNCHANGED <<now, wrappers, kind, func, args, kwargs, description, start_time,
                   result, returned, calls, started, normalExits>>

\* The block raises e: e is thrown into the generator at its yield, which has no
\* handler around it, so the generator ends with e and the with-statement re-raises e.
BlockRaises(i, e) ==
    /\ pc[i] = "in_block"
    /\ thrown' = [thrown EXCEPT ![i] = Some(e)]
    /\ raised' = [raised EXCEPT ![i] = Some(e)]
    /\ events' = [events EXCEPT ![i] = Append(@, "raise")]
    /\ pc' = [pc EXCEPT ![i] = "done"]
    /\ UNCHANGED <<now, stdout, wrappers, kind, func, args, kwargs, description,
                   start_time, end_time, execution_time, result, returned, calls,
                   reads, started, normalExits>>

\* ------------------------------------------------------------------- the rest
\* The caller has taken the outcome: the frame and its locals are gone.
Retire(i) ==
    /\ pc[i] = "done"
    /\ kind' = [kind EXCEPT ![i] = "none"]
    /\ pc' = [pc EXCEPT ![i] = "idle"]
    /\ func' = [func EXCEPT ![i] = None]
    /\ args' = [args EXCEPT ![i] = None]
    /\ kwargs' = [kwargs EXCEPT ![i] = None]
    /\ description' = [description EXCEPT ![i] = None]
    /\ start_time' = [start_time EXCEPT ![i] = None]
    /\ end_time' = [end_time EXCEPT ![i] = None]
    /\ execution_time' = [execution_time EXCEPT ![i] = None]
    /\ result' = [result EXCEPT ![i] = None]
    /\ returned' = [returned EXCEPT ![i] = None]
    /\ raised' = [raised EXCEPT ![i] = None]
    /\ calls' = [calls EXCEPT ![i] = <<>>]
    /\ reads' = [reads EXCEPT ![i] = <<>>]
    /\ events' = [events EXCEPT ![i] = <<>>]
    /\ thrown' = [thrown EXCEPT ![i] = None]
    /\ UNCHANGED <<now, stdout, wrappers, started, normalExits>>

\* Time passes: the monotonic clock moves forward.
Tick(d) ==
    /\ now + d <= MaxClock
    /\ now' = now + d
    /\ UNCHANGED <<stdout, wrappers, frameVars, histVars>>

Init ==
    /\ now = 0
    /\ stdout = <<>>
    /\ wrappers = [f \in Callables |-> None]
    /\ kind = [i \in Frames |-> "none"]
    /\ pc = [i \in Frames |-> "idle"]
    /\ func = [i \in Frames |-> None]
    /\ args = [i \in Frames |-> None]
    /\ kwargs = [i \in Frames |-> None]
    /\ description = [i \in Frames |-> None]
    /\ start_time = [i \in Frames |-> None]
    /\ end_time = [i \in Frames |-> None]
    /\ execution_time = [i \in Frames |-> None]
    /\ result = [i \in Frames |-> None]
    /\ returned = [i \in Frames |-> None]
    /\ raised = [i \in Frames |-> None]
    /\ calls = [i \in Frames |-> <<>>]
    /\ reads = [i \in Frames |-> <<>>]
    /\ events = [i \in Frames |-> <<>>]
    /\ thrown = [i \in Frames |-> None]
    /\ started = 0
    /\ normalExits = 0

Next ==
    \/ \E f \in Callables : Decorate(f)
    \/ \E i \in Frames, c \in Inputs : WrapperEnter(i, c[1], c[2], c[3])
    \/ \E i \in Frames : FuncReturns(i)
    \/ \E i \in Frames : FuncRaises(i)
    \/ \E i \in Frames : WrapperFinish(i)
    \/ \E i \in Frames, d \in Descriptions : TimerEnter(i, d)
    \/ \E i \in Frames : TimerExit(i)
    \/ \E i \in Frames, e \in Exceptions : BlockRaises(i, e)
    \/ \E i \in Frames : Retire(i)
    \/ \E d \in Ticks : Tick(d)

Spec == Init /\ [][Next]_vars

\* ===================================================================== claims
Abs(x) == IF x < 0 THEN -x ELSE x
Last(q) == q[Len(q)]

WrapperDone(i) == kind[i] = "wrapper" /\ pc[i] = "done"
TimerDone(i) == kind[i] = "timer" /\ pc[i] = "done"

\* What func does on the arguments the wrapper was called with.
Expected(i) == Behave(func[i][1], args[i][1], kwargs[i][1])

\* line is prefix, then a decimal numeral with exactly two fraction digits that is
\* a nearest hundredth to t (t in ms * 10^6), then "ms".
IsLine(line, prefix, t) ==
    \E ip \in 0..((MaxClock * 1000) \div 10^6 + 1), f1 \in 0..9, f2 \in 0..9 :
        /\ line = prefix \o ToString(ip) \o "." \o ToString(f1) \o ToString(f2) \o "ms"
        /\ 2 * Abs(t - (100 * ip + 10 * f1 + f2) * 10^4) <= 10^4

\* This step is frame i's timer leaving its block normally / entering its block.
NormalExit(i) == pc[i] = "in_block" /\ pc'[i] = "done" /\ raised'[i] = None
TimerEntry(i) == pc[i] = "idle" /\ pc'[i] = "in_block"

\* This step appends exactly one line to standard output.
OneLine == Len(stdout') = Len(stdout) + 1 /\ SubSeq(stdout', 1, Len(stdout)) = stdout

\* C1: when func returns normally on the arguments given to the wrapped call, func
\* is called exactly once, with exactly those arguments, and the first component of
\* the returned pair is the value func returned.
C1_ValuePreserved ==
    \A i \in Frames :
        /\ Len(calls[i]) <= 1
        /\ (WrapperDone(i) /\ Expected(i).raises = None) =>
              /\ calls[i] = <<[args |-> args[i][1], kwargs |-> kwargs[i][1]]>>
              /\ raised[i] = None
              /\ returned[i] # None
              /\ Len(returned[i][1]) = 2
              /\ returned[i][1][1] = Expected(i).value[1]

C1_Witness ==
    \E i \in Frames :
        /\ WrapperDone(i) /\ returned[i] # None
        /\ kwargs[i][1] # {} /\ returned[i][1][1] = 6

\* C2: when func raises, the wrapped call raises that same exception, returns no
\* pair, and never reads the clock a second time.
C2_FailurePropagates ==
    \A i \in Frames :
        (WrapperDone(i) /\ Expected(i).raises # None) =>
            /\ raised[i] = Expected(i).raises
            /\ raised[i] = thrown[i]
            /\ returned[i] = None
            /\ end_time[i] = None /\ execution_time[i] = None
            /\ Len(reads[i]) = 1

C2_Witness ==
    \E i \in Frames : WrapperDone(i) /\ raised[i] = Some("ValueError")

\* C3: with a clock that never goes backward, every elapsed value is >= 0: the one
\* in a returned pair and the one timer formats into its line.
C3_ElapsedNonNegative ==
    \A i \in Frames :
        /\ execution_time[i] # None => execution_time[i][1] >= 0
        /\ returned[i] # None => returned[i][1][2] >= 0

C3_Witness ==
    \E i, j \in Frames :
        /\ WrapperDone(i) /\ returned[i] # None /\ returned[i][1][2] > 0
        /\ TimerDone(j) /\ execution_time[j] # None /\ execution_time[j][1] > 0

\* C4 as stated: for every description string, the empty one included, a normal
\* exit writes exactly one line "<d> took <X>ms".
C4_Original ==
    [][\A i \in Frames :
          (NormalExit(i) /\ description[i] # None) =>
              /\ OneLine
              /\ IsLine(Last(stdout'), description[i][1] \o " took ", execution_time'[i][1])
      ]_vars

\* C4 (amended): for every non-empty description string d, a normal exit writes
\* exactly one line "<d> took <X>ms", X the elapsed milliseconds to two decimal
\* places; for the empty string the line is "Execution took <X>ms"; standard output
\* changes only in a step that is a timer's normal exit.
C4_DescriptionLine ==
    [][/\ \A i \in Frames :
            (NormalExit(i) /\ description[i] # None) =>
                /\ OneLine
                /\ IsLine(Last(stdout'),
                          IF description[i][1] = ""
                          THEN "Execution took " ELSE description[i][1] \o " took ",
                          execution_time'[i][1])
       /\ stdout' # stdout => \E i \in Frames : NormalExit(i)
      ]_vars

C4_Witness ==
    /\ \E i \in Frames : TimerDone(i) /\ description[i] = Some("") /\ raised[i] = None
    /\ \E i \in Frames : TimerDone(i) /\ description[i] = Some("load") /\ raised[i] = None
                          /\ execution_time[i][1] > 0
    /\ Len(stdout) = 2

\* C5: with no description a normal exit writes exactly one line "Execution took
\* <X>ms"; whatever the description, start_time is read at entry, end_time at exit,
\* and exactly one line is written.
C5_DefaultLine ==
    [][\A i \in Frames :
          /\ TimerEntry(i) => start_time'[i] = Some(now) /\ stdout' = stdout
          /\ NormalExit(i) =>
                /\ OneLine
                /\ start_time'[i] = start_time[i]
                /\ end_time'[i] = Some(now)
                /\ execution_time'[i] = Some((now - start_time[i][1]) * 1000)
                /\ description[i] = None =>
                      IsLine(Last(stdout'), "Execution took ", execution_time'[i][1])
      ]_vars

C5_Witness ==
    /\ \E i \in Frames : TimerDone(i) /\ description[i] = None /\ raised[i] = None
                          /\ execution_time[i][1] > 0
    /\ stdout # <<>>

\* C6: when the block raises, the caller of the with-statement receives that same
\* exception.
C6_BlockFailurePropagates ==
    \A i \in Frames : (kind[i] = "timer" /\ thrown[i] # None) => raised[i] = thrown[i]

C6_Witness ==
    \E i \in Frames : TimerDone(i) /\ thrown[i] = Some("KeyError")

\* C7: each invocation's timestamps are its own: its start_time and end_time are
\* the values it read itself, its elapsed value is (own stop - own start) * 1000,
\* and a step changes the timestamps of no frame but the one that takes it.
C7_Own(i) ==
    /\ start_time[i] # None => Len(reads[i]) >= 1 /\ start_time[i] = Some(reads[i][1])
    /\ end_time[i] # None =>
          /\ Len(reads[i]) = 2
          /\ end_time[i] = Some(reads[i][2])
          /\ execution_time[i] = Some((reads[i][2] - reads[i][1]) * 1000)
    /\ returned[i] # None =>
          /\ Len(reads[i]) = 2
          /\ returned[i][1][2] = (reads[i][2] - reads[i][1]) * 1000

C7_PrivateTimestamps ==
    /\ [](\A i \in Frames : C7_Own(i))
    /\ [][\A i \in Frames :
             (start_time'[i] # start_time[i] \/ end_time'[i] # end_time[i]) => pc'[i] # pc[i]
         ]_vars

C7_Witness ==
    \E i, j \in Frames :
        /\ WrapperDone(i) /\ returned[i] # None
        /\ TimerDone(j) /\ end_time[j] # None
        /\ start_time[i][1] < start_time[j][1]
        /\ start_time[j][1] < end_time[i][1]
        /\ end_time[i][1] <= end_time[j][1]

\* C8: the callable time_execution returns has the name and the docstring of the
\* callable it wraps.
C8_MetadataPreserved ==
    \A f \in Callables :
        wrappers[f] # None =>
            /\ wrappers[f][1].name = FuncName(f)
            /\ wrappers[f][1].doc = FuncDoc(f)

C8_Witness == wrappers["scale"] # None /\ wrappers["scale"][1].doc # None

\* C9: a wrapped call that returns normally reads the clock, calls func, reads the
\* clock again and returns the pair, in that order; it reads the clock exactly
\* twice, writes nothing, and elapsed_ms = (stop - start) * 1000.
C9_Order(i) ==
    (WrapperDone(i) /\ returned[i] # None) =>
        /\ events[i] = <<"perf_counter", "call", "func_returned", "perf_counter", "return">>
        /\ Len(reads[i]) = 2
        /\ start_time[i] = Some(reads[i][1])
        /\ end_time[i] = Some(reads[i][2])
        /\ returned[i][1][2] = (end_time[i][1] - start_time[i][1]) * 1000

C9_MeasurementTap ==
    /\ [](\A i \in Frames : C9_Order(i))
    /\ [][\A i \in Frames :
             (kind'[i] = "wrapper" /\ pc'[i] # pc[i]) =>
                 /\ stdout' = stdout /\ wrappers' = wrappers /\ now' = now
                 /\ pc[i] = "in_func" => start_time'[i] = start_time[i] /\ end_time'[i] = None
                 /\ pc'[i] = "done" /\ returned'[i] # None =>
                       end_time'[i] = Some(now) /\ start_time'[i] = start_time[i]
         ]_vars

C9_Witness ==
    \E i \in Frames : WrapperDone(i) /\ returned[i] # None /\ returned[i][1][2] = 8000

\* C10: when the block raises, timer prints nothing and reads no stop timestamp;
\* the number of lines written is the number of scopes that exited normally.
C10_NoReportOnFailure ==
    /\ Len(stdout) = normalExits
    /\ \A i \in Frames :
          (kind[i] = "timer" /\ thrown[i] # None) =>
              /\ end_time[i] = None /\ execution_time[i] = None
              /\ Len(reads[i]) = 1

C10_Witness ==
    /\ \E i \in Frames : TimerDone(i) /\ thrown[i] # None
    /\ \E i \in Frames : TimerDone(i) /\ thrown[i] = None
    /\ Len(stdout) = 1 /\ started = 2

====
